---- MODULE Spec2Model ----
(***************************************************************************)
(* Load-test framework (load-test-framework.js part of src/src/index.js):  *)
(* the wave scheduler runLoadTest, the virtual-user executor runTest and   *)
(* the step runner runStep, as a state machine over the promise chains.    *)
(* Suspension points are the jitter sleep, the transport call and the      *)
(* post-step sleep; the code between two of them is one action.            *)
(***************************************************************************)
EXTENDS Integers, Sequences, FiniteSets, TLC

(* ------------------------------ bounds --------------------------------- *)
\* largest numOfThreads passed to runLoadTest
MaxThreads == 2
\* largest numOfRepetitions passed to runLoadTest
MaxRepetitions == 2
\* largest number of registered steps
MaxSteps == 2
\* largest jitter value drawn by getRandomIntUntil that is told apart
MaxJitterDraw == 1
\* largest numOfThreads x numOfRepetitions of a call
MaxRuns == 4
\* largest number of transport calls of one wave (numOfThreads x registered
\* steps)
MaxCalls == 4
MaxReportRuns == 3      \* runs of a collection handed to printReport alone
MaxReportResults == 3   \* stepData objects of such a collection

(* ------------------------- program constants --------------------------- *)
\* runLoadTest's destructuring defaults
DefaultNumOfThreads == 64
DefaultNumOfRepetitions == 1
DefaultMaxTimeBeforeStartingInMs == 8000
\* first value of currentRepetition
FirstRepetition == 1
\* stepData.responseStatusCode = null (no response), as a number
NullStatus == 0
\* testData.repetition before addFieldRepetition has set it
NoRepetition == 0

(* ------------------------- JavaScript values --------------------------- *)
Undefined == [kind |-> "undefined", val |-> 0]
Null == [kind |-> "null", val |-> 0]
Num(n) == [kind |-> "number", val |-> n]

\* a destructuring default applies to undefined only, never to null
DefaultTo(v, d) == IF v.kind = "undefined" THEN Num(d) ELSE v

\* JavaScript !v for undefined, null and numbers
Falsy(v) == v.kind # "number" \/ v.val = 0

\* JavaScript v < n: null converts to 0, undefined to NaN (always false)
LessThan(v, n) ==
  CASE v.kind = "number" -> v.val < n
    [] v.kind = "null" -> 0 < n
    [] OTHER -> FALSE

Min(a, b) == IF a < b THEN a ELSE b

(* ------------------------------ inputs --------------------------------- *)
\* the step definitions addStep can have registered (name, expected code,
\* assertion function: the default one or one the user wrote, delay)
StepDefs ==
  { [name |-> "login", expectedResponseCode |-> 200,
     assertionFunction |-> "default", sleepBeforeNextStepInMs |-> 0],
    [name |-> "create", expectedResponseCode |-> 201,
     assertionFunction |-> "user", sleepBeforeNextStepInMs |-> 5] }

RECURSIVE SeqsUpTo(_, _)
SeqsUpTo(S, n) ==
  IF n = 0 THEN { <<>> }
  ELSE LET shorter == SeqsUpTo(S, n - 1)
       IN  shorter \cup { Append(s, x) : s \in { t \in shorter : Len(t) = n - 1 }, x \in S }

\* what the transport can answer: a response with a status, or none at all
NoResponse == [exists |-> FALSE, status |-> NullStatus]
Response(code) == [exists |-> TRUE, status |-> code]
Responses == { Response(200), Response(201), NoResponse }

\* what computeElapsedTime measures around a transport call, in ms (one
\* value: nothing in the scheduler or the executor reads a response time)
ElapsedTimes == { 50 }

\* what runLoadTest is called with. numOfThreads is never left out here: its
\* default is DefaultNumOfThreads virtual users per wave
NumOfThreadsInputs == { Null } \cup { Num(n) : n \in -1..MaxThreads }
NumOfRepetitionsInputs == { Undefined, Null } \cup { Num(n) : n \in -1..MaxRepetitions }
MaxTimeInputs == { Undefined, Null } \cup { Num(n) : n \in -1..MaxJitterDraw }

(* ------------------------------- state --------------------------------- *)
VARIABLES
  steps,                \* loadTestFramework.steps
  suiteParams,          \* the object runLoadTest was called with
  phase,                \* runLoadTest: "idle", "waiting", "resolved", "rejected", "thrown"
  currentRepetition,    \* parameter of the running runLoadTest invocation
  testDataAccumulator,  \* parameter of the running runLoadTest invocation
  testThreads,          \* the promises given to Promise.all, as indices of users
  users,                \* every virtual user spawned so far, in spawn order
  results,              \* what runLoadTest resolved to
  report                \* what printReport computed from the results

vars == << steps, suiteParams, phase, currentRepetition, testDataAccumulator,
           testThreads, users, results, report >>

(* ------------------------- runStep and helpers ------------------------- *)
\* assertStatusCode without expect(res).to.exist: a missing response passes
AssertStatusOnlyOfResponse(res, expectedStatusCode) ==
  ~res.exists \/ res.status = expectedStatusCode

\* assertStatusCode: rejects unless a response exists with the expected status
AssertStatusCode(res, expectedStatusCode) ==
  res.exists /\ res.status = expectedStatusCode

\* defaultAssertionFunction: the response exists (axios responses carry data)
DefaultAssertionFunction(res) == res.exists

\* applyUserAssertions: rejects when the step's assertion function throws;
\* a user's function is arbitrary code: userThrows is what it does
ApplyUserAssertions(res, assertionFunction, userThrows) ==
  IF assertionFunction = "default" THEN DefaultAssertionFunction(res)
  ELSE ~userThrows

\* runStep that keeps a reference to the first registered step in stepData
RunStepOfFirstStep(step, res, userThrows, elapsedTime) ==
  LET statusOk == AssertStatusCode(res, step.expectedResponseCode)
      userOk == ApplyUserAssertions(res, step.assertionFunction, userThrows)
  IN  [ responseTime |-> elapsedTime,
        responseStatusCode |-> IF res.exists THEN res.status ELSE NullStatus,
        succeeded |-> statusOk /\ userOk,
        error |-> IF ~statusOk THEN "status"
                  ELSE IF ~userOk THEN "assertion" ELSE "none",
        step |-> steps[1] ]

\* runStep: the stepData it resolves to for a transport answer
RunStep(step, res, userThrows, elapsedTime) ==
  LET statusOk == AssertStatusCode(res, step.expectedResponseCode)
      userOk == ApplyUserAssertions(res, step.assertionFunction, userThrows)
  IN  [ responseTime |-> elapsedTime,
        responseStatusCode |-> IF res.exists THEN res.status ELSE NullStatus,
        succeeded |-> statusOk /\ userOk,
        error |-> IF ~statusOk THEN "status"
                  ELSE IF ~userOk THEN "assertion" ELSE "none",
        step |-> step ]

\* storeStepData that keeps the succeeded steps only
StoreSucceededOnly(testData, stepData) ==
  IF stepData.succeeded
  THEN [testData EXCEPT !.stepsData = Append(@, stepData)]
  ELSE testData

\* storeStepData
StoreStepData(testData, stepData) ==
  [testData EXCEPT !.stepsData = Append(@, stepData)]

\* abortTestIfNecessary that resolves for a failed step too
NeverAborts(stepData) == FALSE

\* abortTestIfNecessary: TRUE when it rejects
AbortTestIfNecessary(stepData) == ~stepData.succeeded

(* ------------------------------ runTest -------------------------------- *)
NoTestData == [stepsData |-> <<>>, succeeded |-> TRUE, error |-> "none",
               repetition |-> NoRepetition]

\* a virtual user as spawned by runLoadTest: sleeping its jitter
NewUser(wave, timeBeforeStarting) ==
  [ pc |-> "jitter", wave |-> wave, timer |-> timeBeforeStarting,
    stepIndex |-> 0, testData |-> NoTestData,
    issued |-> <<>>, delays |-> <<>>, elapsed |-> <<>> ]

\* runTest's .catch without testData.succeeded = false
CatchWithoutMarking(user, error) ==
  [user EXCEPT !.pc = "resolved", !.testData.error = error]

\* runTest's .catch throwing the error again
CatchRethrows(user, error) ==
  [user EXCEPT !.pc = "rejected",
               !.testData.succeeded = FALSE,
               !.testData.error = error]

\* runTest's .catch: the run is marked failed and the promise resolves
CatchTestError(user, error) ==
  [user EXCEPT !.pc = "resolved",
               !.testData.succeeded = FALSE,
               !.testData.error = error]

\* the link of the reduce chain for the next step: runStep opens the request
StartStep(user, i) ==
  [user EXCEPT !.pc = "request", !.stepIndex = i, !.timer = 0,
               !.issued = Append(@, i)]

\* a chain link that does not return the promise of its sleep: the next
\* link runs without waiting for the delay
SleepNotAwaited(user, step) ==
  IF user.stepIndex < Len(steps)
  THEN StartStep([user EXCEPT !.delays = Append(@, user.stepIndex)],
                 user.stepIndex + 1)
  ELSE [user EXCEPT !.pc = "resolved", !.timer = 0,
                    !.delays = Append(@, user.stepIndex)]

\* after abortTestIfNecessary resolved: sleep(step.sleepBeforeNextStepInMs)
SleepBeforeNextStep(user, step) ==
  [user EXCEPT !.pc = "delay", !.timer = step.sleepBeforeNextStepInMs,
               !.delays = Append(@, user.stepIndex)]

\* one succeeded flag shared by the virtual users of a wave
SetUserSharedFlag(u, user) ==
  [ v \in DOMAIN users |->
      IF v = u THEN user
      ELSE IF users[v].wave = user.wave /\ ~user.testData.succeeded
      THEN [users[v] EXCEPT !.testData.succeeded = FALSE]
      ELSE users[v] ]

\* a promise chain writes the virtual user it belongs to and no other: the
\* testData of runTest and the stepData of runStep are local objects
SetUser(u, user) == [users EXCEPT ![u] = user]

\* the jitter sleep is over: runTest(this.steps)
JitterElapsed(u) ==
  /\ users[u].pc = "jitter"
  /\ users' = SetUser(u,
       IF Len(steps) < 1 THEN [users[u] EXCEPT !.pc = "rejected", !.timer = 0]
       ELSE StartStep(users[u], 1))
  /\ UNCHANGED << steps, suiteParams, phase, currentRepetition,
                  testDataAccumulator, testThreads, results, report >>

\* a request given up after a deadline: the run fails without a response
\* having been recorded
TransportTimesOut(u, res, userThrows, elapsedTime) ==
  /\ users[u].pc = "request"
  /\ users' = SetUser(u, CatchTestError(users[u], "status"))
  /\ UNCHANGED << steps, suiteParams, phase, currentRepetition,
                  testDataAccumulator, testThreads, results, report >>

\* the transport answered the request of the current step
TransportResponds(u, res, userThrows, elapsedTime) ==
  /\ users[u].pc = "request"
  /\ LET step == steps[users[u].stepIndex]
         stepData == RunStep(step, res, userThrows, elapsedTime)
         stored == [users[u] EXCEPT !.testData = StoreStepData(@, stepData)]
     IN  users' = SetUser(u,
           IF AbortTestIfNecessary(stepData)
           THEN CatchTestError(stored, stepData.error)
           ELSE SleepBeforeNextStep(stored, step))
  /\ UNCHANGED << steps, suiteParams, phase, currentRepetition,
                  testDataAccumulator, testThreads, results, report >>

\* the post-step sleep is over: the next link of the chain, or the end of it
SleepElapsed(u) ==
  /\ users[u].pc = "delay"
  /\ LET slept == [users[u] EXCEPT !.elapsed = Append(@, users[u].stepIndex)]
     IN  users' = SetUser(u,
           IF slept.stepIndex < Len(steps)
           THEN StartStep(slept, slept.stepIndex + 1)
           ELSE [slept EXCEPT !.pc = "resolved", !.timer = 0])
  /\ UNCHANGED << steps, suiteParams, phase, currentRepetition,
                  testDataAccumulator, testThreads, results, report >>

(* ---------------------------- runLoadTest ------------------------------ *)
\* the parameters after the destructuring defaults
NumOfRepetitions == DefaultTo(suiteParams.numOfRepetitions, DefaultNumOfRepetitions)
MaxTimeBeforeStartingInMs ==
  DefaultTo(suiteParams.maxTimeBeforeStartingInMs, DefaultMaxTimeBeforeStartingInMs)
NumOfThreads == DefaultTo(suiteParams.numOfThreads, DefaultNumOfThreads)

\* the validations without the null test of maxTimeBeforeStartingInMs
ValidParamsNoNullTest ==
  /\ ~(Falsy(NumOfThreads) \/ LessThan(NumOfThreads, 1))
  /\ ~(Falsy(NumOfRepetitions) \/ LessThan(NumOfRepetitions, 1))
  /\ ~LessThan(MaxTimeBeforeStartingInMs, 0)

\* the three validations: TRUE when none of them throws
ValidParams ==
  /\ ~(Falsy(NumOfThreads) \/ LessThan(NumOfThreads, 1))
  /\ ~(Falsy(NumOfRepetitions) \/ LessThan(NumOfRepetitions, 1))
  /\ ~(MaxTimeBeforeStartingInMs.kind # "number" \/ LessThan(MaxTimeBeforeStartingInMs, 0))

\* currentRepetition >= numOfRepetitions: one wave short
RepetitionsDoneOneShort(repetition) == repetition >= NumOfRepetitions.val

\* currentRepetition > numOfRepetitions
RepetitionsDone(repetition) == repetition > NumOfRepetitions.val

\* a join that is fulfilled by the first promise to resolve (Promise.any)
SomeResolved == \E i \in 1..Len(testThreads) : users[testThreads[i]].pc = "resolved"

\* Promise.all(testThreads) is fulfilled: every promise of the wave resolved
AllResolved == \A i \in 1..Len(testThreads) : users[testThreads[i]].pc = "resolved"

\* Promise.all(testThreads) is rejected: some promise of the wave rejected
SomeRejected == \E i \in 1..Len(testThreads) : users[testThreads[i]].pc = "rejected"

\* addFieldRepetition stamping a 0-based index
AddFieldRepetitionFromZero(allUsers, wave, repetitionIndex) ==
  [ u \in DOMAIN allUsers |->
      IF \E i \in 1..Len(wave) : wave[i] = u
      THEN [allUsers[u] EXCEPT !.testData.repetition = repetitionIndex - 1]
      ELSE allUsers[u] ]

\* addFieldRepetition on the testData of the wave
AddFieldRepetition(allUsers, wave, repetitionIndex) ==
  [ u \in DOMAIN allUsers |->
      IF \E i \in 1..Len(wave) : wave[i] = u
      THEN [allUsers[u] EXCEPT !.testData.repetition = repetitionIndex]
      ELSE allUsers[u] ]

\* the body of runLoadTest(repetition, accumulator) over the users `before`
RunLoadTestBody(repetition, accumulator, before, onThrow) ==
  IF ~ValidParams
  THEN /\ phase' = onThrow
       /\ users' = before
       /\ UNCHANGED << currentRepetition, testDataAccumulator, testThreads, results >>
  ELSE IF RepetitionsDone(repetition)
  THEN /\ phase' = "resolved"
       /\ results' = accumulator
       /\ users' = before
       /\ currentRepetition' = repetition
       /\ testDataAccumulator' = accumulator
       /\ UNCHANGED testThreads
  ELSE \E draws \in [ 1..NumOfThreads.val ->
                      0..Min(MaxTimeBeforeStartingInMs.val, MaxJitterDraw) ] :
       /\ phase' = "waiting"
       /\ users' = before \o [ i \in 1..NumOfThreads.val |-> NewUser(repetition, draws[i]) ]
       /\ testThreads' = [ i \in 1..NumOfThreads.val |-> Len(before) + i ]
       /\ currentRepetition' = repetition
       /\ testDataAccumulator' = accumulator
       /\ UNCHANGED results

\* index.js calls loadTestFramework.runLoadTest(suiteParams)
CallRunLoadTest ==
  /\ phase = "idle"
  /\ RunLoadTestBody(FirstRepetition, <<>>, users, "thrown")
  /\ UNCHANGED << steps, suiteParams, report >>

\* Promise.all fulfilled: .tap(addFieldRepetition), .then(runLoadTest(...))
WaveJoin ==
  /\ phase = "waiting"
  /\ AllResolved
  /\ RunLoadTestBody(currentRepetition + 1,
                     testDataAccumulator \o testThreads,
                     AddFieldRepetition(users, testThreads, currentRepetition),
                     "rejected")
  /\ UNCHANGED << steps, suiteParams, report >>

\* Promise.all rejected: the promise runLoadTest returned is rejected
WaveReject ==
  /\ phase = "waiting"
  /\ SomeRejected
  /\ phase' = "rejected"
  /\ UNCHANGED << steps, suiteParams, currentRepetition, testDataAccumulator,
                  testThreads, users, results, report >>

(* ------------------------- index.js: the report ------------------------ *)
\* JavaScript numbers of the report, as fractions n/d in lowest terms; NaN
\* is 0/0; 'N/A' is the string the report puts in place of a falsy average
RECURSIVE GCD(_, _)
GCD(a, b) == IF b = 0 THEN a ELSE GCD(b, a % b)

NaN == [kind |-> "NaN", n |-> 0, d |-> 0]
Infinity == [kind |-> "Infinity", n |-> 1, d |-> 0]
NA == [kind |-> "N/A", n |-> 0, d |-> 0]
Fraction(n, d) ==
  LET g == GCD(n, d) IN [kind |-> "number", n |-> n \div g, d |-> d \div g]
Number(n) == [kind |-> "number", n |-> n, d |-> 1]

\* x + y
Plus(x, y) ==
  IF x.kind = "number" /\ y.kind = "number"
  THEN Fraction(x.n * y.d + y.n * x.d, x.d * y.d)
  ELSE IF x.kind = "Infinity" /\ y.kind # "NaN" THEN Infinity
  ELSE IF y.kind = "Infinity" /\ x.kind # "NaN" THEN Infinity
  ELSE NaN

\* x / k for an integer k >= 0
DividedBy(x, k) ==
  IF x.kind = "number"
  THEN IF k > 0 THEN Fraction(x.n, x.d * k)
       ELSE IF x.n = 0 THEN NaN ELSE Infinity
  ELSE x

\* x * k for an integer k > 0
Times(x, k) == IF x.kind = "number" THEN Fraction(x.n * k, x.d) ELSE x

\* the average as computed, without || 'N/A'
WithoutFallback(x) == x

\* JavaScript x || 'N/A': NaN and 0 are falsy
OrNA(x) == IF x.kind = "NaN" \/ (x.kind = "number" /\ x.n = 0) THEN NA ELSE x

\* arr.reduce((acc, value) => acc + value, 0) over arr[i..]
RECURSIVE SumFrom(_, _)
SumFrom(arr, i) ==
  IF i > Len(arr) THEN Number(0) ELSE Plus(arr[i], SumFrom(arr, i + 1))

\* computeAvg
ComputeAvg(arr) == DividedBy(SumFrom(arr, 1), Len(arr))

\* computeAvgResponseTimeForTest
ComputeAvgResponseTimeForTest(testData) ==
  ComputeAvg([ j \in 1..Len(testData.stepsData) |->
               Number(testData.stepsData[j].responseTime) ])

\* the elapsed times of every stepData of the runs i.., in one array
RECURSIVE AllResponseTimesFrom(_, _)
AllResponseTimesFrom(testsData, i) ==
  IF i > Len(testsData) THEN << >>
  ELSE [ j \in 1..Len(testsData[i].stepsData) |->
         Number(testsData[i].stepsData[j].responseTime) ]
       \o AllResponseTimesFrom(testsData, i + 1)

\* an average pooled over all stepData of the runs
PooledAverage(testsData) == ComputeAvg(AllResponseTimesFrom(testsData, 1))

\* computeAvgResponseTimeForTests
ComputeAvgResponseTimeForTests(testsData) ==
  ComputeAvg([ i \in 1..Len(testsData) |->
               ComputeAvgResponseTimeForTest(testsData[i]) ])

\* results.filter(predicate), for the two predicates printReport uses
RECURSIVE FilterBySucceeded(_, _)
FilterBySucceeded(testsData, wanted) ==
  IF testsData = << >> THEN << >>
  ELSE IF Head(testsData).succeeded = wanted
  THEN << Head(testsData) >> \o FilterBySucceeded(Tail(testsData), wanted)
  ELSE FilterBySucceeded(Tail(testsData), wanted)

\* getStepDataWithError reading the first stepData of a run
GetFirstStepData(testData) == testData.stepsData[1]

\* getStepDataWithError: the last stepData of a run
GetStepDataWithError(testData) == testData.stepsData[Len(testData.stepsData)]

\* an object used as a tally: one more under key (1 for a key it has not)
Tally(acc, key) ==
  IF key \in DOMAIN acc
  THEN [acc EXCEPT ![key] = @ + 1]
  ELSE [ k \in DOMAIN acc \cup { key } |-> IF k = key THEN 1 ELSE acc[k] ]

\* the object {} as a function
EmptyObject == [ k \in {} |-> 0 ]

\* countResponseCodes: the key 'statusCode' + statusCode is kept as the
\* status itself (NullStatus for 'statusCodenull')
RECURSIVE CountResponseCodesFrom(_, _, _)
CountResponseCodesFrom(testsData, i, acc) ==
  IF i > Len(testsData) THEN acc
  ELSE CountResponseCodesFrom(testsData, i + 1,
         Tally(acc, GetStepDataWithError(testsData[i]).responseStatusCode))

CountResponseCodes(testsData) == CountResponseCodesFrom(testsData, 1, EmptyObject)

\* the reduce of generateDistributionReportForErroredSteps over the names
RECURSIVE CountStepNamesFrom(_, _, _)
CountStepNamesFrom(testsData, i, acc) ==
  IF i > Len(testsData) THEN acc
  ELSE CountStepNamesFrom(testsData, i + 1,
         Tally(acc, GetStepDataWithError(testsData[i]).step.name))

CountStepNames(testsData) == CountStepNamesFrom(testsData, 1, EmptyObject)

\* the order of Array.prototype.sort on the keys of the two tallies:
\* 'statusCode2xx' before 'statusCodenull', and the names by code unit
StatusKeyRank(code) == IF code = NullStatus THEN 1000 ELSE code
NameRank(name) == CASE name = "create" -> 1 [] name = "login" -> 2 [] OTHER -> 3

\* Object.keys(tally).sort() and one line "key: count" per key; 'N/A' when
\* the message is still the empty string
RECURSIVE SortedLines(_, _, _)
SortedLines(tally, keys, rank) ==
  IF keys = {} THEN << >>
  ELSE LET first == CHOOSE k \in keys : \A other \in keys : rank[k] <= rank[other]
       IN  << [key |-> first, count |-> tally[first]] >>
             \o SortedLines(tally, keys \ { first }, rank)

DistributionMessage(lines) == [na |-> lines = << >>, lines |-> lines]

\* generateDistributionReportForStatusCode
GenerateDistributionReportForStatusCode(testsData) ==
  LET tally == CountResponseCodes(testsData)
  IN  DistributionMessage(SortedLines(tally, DOMAIN tally,
                            [ k \in DOMAIN tally |-> StatusKeyRank(k) ]))

\* generateDistributionReportForErroredSteps
GenerateDistributionReportForErroredSteps(testsData) ==
  LET tally == CountStepNames(testsData)
  IN  DistributionMessage(SortedLines(tally, DOMAIN tally,
                            [ k \in DOMAIN tally |-> NameRank(k) ]))

\* testData.stepsData.find(stepData => stepData.step.name === stepName):
\* the index of the first stepData of that name, 0 for undefined
RECURSIVE FindStepFrom(_, _, _)
FindStepFrom(stepsData, stepName, j) ==
  IF j > Len(stepsData) THEN 0
  ELSE IF stepsData[j].step.name = stepName THEN j
  ELSE FindStepFrom(stepsData, stepName, j + 1)

\* the inner testsData.forEach of computeAvgResponseTimeForEachStep: the
\* executions and the total time of stepName after the runs i..
RECURSIVE VisitRunsFrom(_, _, _, _)
VisitRunsFrom(testsData, stepName, i, count) ==
  IF i > Len(testsData) THEN count
  ELSE LET j == FindStepFrom(testsData[i].stepsData, stepName, 1)
       IN  VisitRunsFrom(testsData, stepName, i + 1,
             IF j = 0 THEN count
             ELSE [ executions |-> count.executions + 1,
                    total |-> count.total + testsData[i].stepsData[j].responseTime ])

\* the outer stepNames.forEach: the counters start at 0 on the first visit
\* of a name and are kept on a later visit of the same name
RECURSIVE VisitStepNamesFrom(_, _, _, _)
VisitStepNamesFrom(testsData, stepNames, k, counts) ==
  IF k > Len(stepNames) THEN counts
  ELSE LET name == stepNames[k]
           start == IF name \in DOMAIN counts THEN counts[name]
                    ELSE [executions |-> 0, total |-> 0]
           after == VisitRunsFrom(testsData, name, 1, start)
       IN  VisitStepNamesFrom(testsData, stepNames, k + 1,
             [ n \in DOMAIN counts \cup { name } |->
                 IF n = name THEN after ELSE counts[n] ])

\* computeAvgResponseTimeForEachStep, for a non-empty testsData
ComputeAvgResponseTimeForEachStep(testsData) ==
  LET first == testsData[1].stepsData
      stepNames == [ j \in 1..Len(first) |-> first[j].step.name ]
      counts == VisitStepNamesFrom(testsData, stepNames, 1, EmptyObject)
  IN  [ n \in DOMAIN counts |->
          DividedBy(Number(counts[n].total), counts[n].executions) ]

\* the report before printReport ran
NoReport ==
  [ state |-> "none", numOfPerformedTests |-> 0, numOfSuccesses |-> 0,
    numOfFailures |-> 0, errorRate |-> NA, all |-> NA, successes |-> NA,
    failures |-> NA, steps |-> EmptyObject,
    stepFailureDistribution |-> DistributionMessage(<< >>),
    errorCodeDistribution |-> DistributionMessage(<< >>) ]

\* printReport: what it logs, or that it threw. testsData[0].stepsData of an
\* empty collection is a TypeError, raised before anything is logged
PrintReportOf(testsData) ==
  LET testsThatSucceeded == FilterBySucceeded(testsData, TRUE)
      testsThatFailed == FilterBySucceeded(testsData, FALSE)
  IN  IF Len(testsData) = 0
      THEN [NoReport EXCEPT !.state = "threw"]
      ELSE [ state |-> "printed",
             numOfPerformedTests |-> Len(testsData),
             numOfSuccesses |-> Len(testsThatSucceeded),
             numOfFailures |-> Len(testsThatFailed),
             errorRate |-> Times(DividedBy(Number(Len(testsThatFailed)),
                                           Len(testsData)), 100),
             all |-> ComputeAvgResponseTimeForTests(testsData),
             successes |-> OrNA(ComputeAvgResponseTimeForTests(testsThatSucceeded)),
             failures |-> OrNA(ComputeAvgResponseTimeForTests(testsThatFailed)),
             steps |-> ComputeAvgResponseTimeForEachStep(testsData),
             stepFailureDistribution |->
               GenerateDistributionReportForErroredSteps(testsThatFailed),
             errorCodeDistribution |->
               GenerateDistributionReportForStatusCode(testsThatFailed) ]

\* the testData objects a collection refers to
TestsData(ids) == [ i \in 1..Len(ids) |-> users[ids[i]].testData ]

\* runLoadTest(...).then(results => printReport(results))
PrintReport ==
  /\ phase = "resolved"
  /\ report.state = "none"
  /\ report' = PrintReportOf(TestsData(results))
  /\ UNCHANGED << steps, suiteParams, phase, currentRepetition,
                  testDataAccumulator, testThreads, users, results >>

(* --------------------------- specification ----------------------------- *)
\* the number of runs a call asks for (0 when a count is not a positive number)
RequestedRuns(p) ==
  LET t == DefaultTo(p.numOfThreads, DefaultNumOfThreads)
      r == DefaultTo(p.numOfRepetitions, DefaultNumOfRepetitions)
  IN  IF t.kind = "number" /\ r.kind = "number" /\ t.val > 0 /\ r.val > 0
      THEN t.val * r.val ELSE 0

\* the number of virtual users a wave of the call spawns (0 as above)
RequestedThreads(p) ==
  LET t == DefaultTo(p.numOfThreads, DefaultNumOfThreads)
  IN  IF t.kind = "number" /\ t.val > 0 THEN t.val ELSE 0

Init ==
  /\ steps \in SeqsUpTo(StepDefs, MaxSteps)
  /\ suiteParams \in [ numOfThreads : NumOfThreadsInputs,
                       numOfRepetitions : NumOfRepetitionsInputs,
                       maxTimeBeforeStartingInMs : MaxTimeInputs ]
  /\ RequestedRuns(suiteParams) <= MaxRuns
  /\ RequestedThreads(suiteParams) * Len(steps) <= MaxCalls
  /\ phase = "idle"
  /\ currentRepetition = FirstRepetition
  /\ testDataAccumulator = <<>>
  /\ testThreads = <<>>
  /\ users = <<>>
  /\ results = <<>>
  /\ report = NoReport

Next ==
  \/ CallRunLoadTest
  \/ \E u \in DOMAIN users : JitterElapsed(u)
  \/ \E u \in DOMAIN users, res \in Responses, userThrows \in BOOLEAN,
          elapsedTime \in ElapsedTimes :
       TransportResponds(u, res, userThrows, elapsedTime)
  \/ \E u \in DOMAIN users : SleepElapsed(u)
  \/ WaveJoin
  \/ WaveReject
  \/ PrintReport

Spec == Init /\ [][Next]_vars

\* what the event loop does by itself until runLoadTest settles: timers
\* fire and the callbacks of settled promises run
Scheduled ==
  \/ CallRunLoadTest
  \/ \E u \in DOMAIN users : JitterElapsed(u)
  \/ \E u \in DOMAIN users : SleepElapsed(u)
  \/ WaveJoin
  \/ WaveReject

\* some pending request is answered
Responds ==
  \E u \in DOMAIN users, res \in Responses, userThrows \in BOOLEAN,
     elapsedTime \in ElapsedTimes :
    TransportResponds(u, res, userThrows, elapsedTime)

\* the program with a fair event loop and a transport that answers every
\* request it was sent
LiveSpec == Spec /\ WF_vars(Scheduled) /\ WF_vars(Responds)

(* --------------------- printReport on its own -------------------------- *)
\* what the transport did to one request (the runs of these collections
\* fail by their status or a missing response, not by a user's assertion)
ReportElapsedTimes == { 0, 50, 60, 70 }
Answers == [ res : Responses, userThrows : { FALSE }, elapsedTime : ReportElapsedTimes ]

\* runTest as one sequential computation: the chain of the steps i.. fed
\* with the answers of script, from the testData so far
RECURSIVE RunTestFrom(_, _, _, _)
RunTestFrom(theSteps, script, i, testData) ==
  IF i > Len(theSteps) THEN testData
  ELSE LET stepData == RunStep(theSteps[i], script[i].res, script[i].userThrows,
                               script[i].elapsedTime)
           stored == StoreStepData(testData, stepData)
       IN  IF AbortTestIfNecessary(stepData)
           THEN [stored EXCEPT !.succeeded = FALSE, !.error = stepData.error]
           ELSE RunTestFrom(theSteps, script, i + 1, stored)

\* every testData a run of theSteps can resolve to, stamped with a wave
RunsOf(theSteps, repetitionIndex) ==
  { [RunTestFrom(theSteps, script, 1, NoTestData) EXCEPT !.repetition = repetitionIndex] :
      script \in [ 1..Len(theSteps) -> Answers ] }

\* the virtual user that resolved to testData
SettledUser(testData) ==
  LET n == Len(testData.stepsData)
      slept == IF testData.succeeded THEN n ELSE n - 1
  IN  [ pc |-> "resolved", wave |-> testData.repetition, timer |-> 0,
        stepIndex |-> n, testData |-> testData,
        issued |-> [ i \in 1..n |-> i ], delays |-> [ i \in 1..slept |-> i ],
        elapsed |-> [ i \in 1..slept |-> i ] ]

\* the number of stepData objects in the runs i.. of a collection
RECURSIVE ResultsFrom(_, _)
ResultsFrom(c, i) ==
  IF i > Len(c) THEN 0 ELSE Len(c[i].stepsData) + ResultsFrom(c, i + 1)

\* printReport is handed a settled collection: one wave of n runs, or, as a
\* function called on its own, the collection of no run at all (runLoadTest
\* itself never resolves to it: it spawns at least one run per wave)
InitReport ==
  /\ steps \in SeqsUpTo(StepDefs, MaxSteps) \ { << >> }
  /\ \E n \in 0..MaxReportRuns :
       /\ suiteParams = [ numOfThreads |-> Num(n),
                          numOfRepetitions |-> Num(FirstRepetition),
                          maxTimeBeforeStartingInMs |-> Num(0) ]
       /\ results = [ i \in 1..n |-> i ]
       /\ \E c \in [ 1..n -> { r \in RunsOf(steps, FirstRepetition) :
                                 Len(r.stepsData) + (n - 1) <= MaxReportResults } ] :
            /\ ResultsFrom(c, 1) <= MaxReportResults
            /\ users = [ i \in 1..n |-> SettledUser(c[i]) ]
  /\ phase = "resolved"
  /\ currentRepetition = FirstRepetition + 1
  /\ testDataAccumulator = results
  /\ testThreads = results
  /\ report = NoReport

SpecReport == InitReport /\ [][PrintReport]_vars

(* ------------------------ vocabulary of the claims --------------------- *)
NumSteps == Len(steps)
StepsData(u) == users[u].testData.stepsData
Failed(u) == ~users[u].testData.succeeded
\* the testData objects of the collection runLoadTest resolved to
Returned == { results[i] : i \in 1..Len(results) }
\* <<1, 2, ..., n>>
UpTo(n) == [ i \in 1..n |-> i ]
\* transport calls of u that were issued and not answered yet
InFlight(u) == Len(users[u].issued) - Len(StepsData(u))
SameWave(u, v) == users[u].wave = users[v].wave

(* ------------------------------- C1 ------------------------------------ *)
\* C1: with at least one registered step and valid parameters runLoadTest
\* neither throws nor rejects, whatever the transport answers, and the
\* collection it resolves to holds numOfThreads x numOfRepetitions TestRuns.
C1_RunCount ==
  /\ (NumSteps >= 1 /\ ValidParams) => phase \notin { "thrown", "rejected" }
  /\ phase = "resolved" =>
       /\ NumSteps >= 1 /\ ValidParams
       /\ Len(results) = NumOfThreads.val * NumOfRepetitions.val

\* two waves of two virtual users returned, with a succeeded run, a status
\* mismatch, a failed assertion and a missing response among them
C1_Witness ==
  /\ phase = "resolved"
  /\ Len(results) = 4
  /\ NumOfThreads.val = 2
  /\ \E u \in Returned : ~Failed(u)
  /\ \E u \in Returned : Failed(u) /\ users[u].testData.error = "assertion"
  /\ \E u \in Returned : Failed(u) /\ StepsData(u)[Len(StepsData(u))].responseStatusCode = NullStatus
  /\ \E u \in Returned : Failed(u) /\ users[u].testData.error = "status"
                         /\ StepsData(u)[Len(StepsData(u))].responseStatusCode # NullStatus

(* ------------------------------- C2 ------------------------------------ *)
\* C2: whenever a virtual user of a later wave exists (it was spawned: it
\* sleeps its jitter or has gone further), every virtual user of every
\* earlier wave has settled.
C2_WavesSequential ==
  \A u, v \in DOMAIN users :
    users[u].wave < users[v].wave => users[u].pc = "resolved"

\* a virtual user of wave 2 has a call in flight after wave 1 settled with a
\* failed and a succeeded run
C2_Witness ==
  \E u, v, w \in DOMAIN users :
    /\ users[u].wave = 1 /\ users[v].wave = 1 /\ users[w].wave = 2
    /\ Failed(u) /\ ~Failed(v) /\ users[v].pc = "resolved"
    /\ users[w].pc = "request"

(* ------------------------------- C3 ------------------------------------ *)
\* C3: the calls a virtual user has issued are steps 1, 2, ..., k in that
\* order, each once; at most one of them is unanswered; and step i+1 was
\* issued only with the result of step i recorded and its delay elapsed.
C3_StepsInOrder ==
  \A u \in DOMAIN users :
    LET user == users[u] IN
    /\ Len(user.issued) <= NumSteps
    /\ user.issued = UpTo(Len(user.issued))
    /\ InFlight(u) \in { 0, 1 }
    /\ (user.pc = "request") = (InFlight(u) = 1)
    /\ \A i \in 1..Len(user.issued) - 1 :
         /\ i <= Len(StepsData(u))
         /\ \E j \in 1..Len(user.elapsed) : user.elapsed[j] = i

\* the second step's call is in flight, after a first step with a delay
C3_Witness ==
  \E u \in DOMAIN users :
    /\ users[u].pc = "request"
    /\ users[u].issued = << 1, 2 >>
    /\ steps[1].sleepBeforeNextStepInMs > 0

(* ------------------------------- C4 ------------------------------------ *)
\* C4: in the returned collection a run is failed exactly if its last
\* StepResult is failed, and a failed run's earlier StepResults succeeded.
C4_FailedIffLastFailed ==
  phase = "resolved" =>
    \A u \in Returned :
      LET sd == StepsData(u) IN
      /\ Failed(u) <=> (Len(sd) >= 1 /\ ~sd[Len(sd)].succeeded)
      /\ Failed(u) => \A j \in 1..Len(sd) - 1 : sd[j].succeeded

\* a returned run that failed on its second step, and one that succeeded
C4_Witness ==
  /\ phase = "resolved"
  /\ \E u \in Returned : Failed(u) /\ Len(StepsData(u)) = 2
  /\ \E u \in Returned : ~Failed(u) /\ Len(StepsData(u)) = 2

(* ------------------------------- C5 ------------------------------------ *)
\* C5 as stated: a returned run has at most NumSteps StepResults, and
\* exactly NumSteps if and only if it succeeded.
C5_Original ==
  phase = "resolved" =>
    \A u \in Returned :
      /\ Len(StepsData(u)) <= NumSteps
      /\ (Len(StepsData(u)) = NumSteps) <=> ~Failed(u)

\* C5 amended: a returned run has at most NumSteps StepResults; a succeeded
\* run has exactly NumSteps; a failed run has at least one, and as many as
\* the index of the step it failed on (NumSteps when that is the last step).
C5_LengthBound ==
  phase = "resolved" =>
    \A u \in Returned :
      /\ Len(StepsData(u)) <= NumSteps
      /\ ~Failed(u) => Len(StepsData(u)) = NumSteps
      /\ Failed(u) => /\ Len(StepsData(u)) >= 1
                      /\ Len(StepsData(u)) = users[u].stepIndex

\* a returned run that failed on the last of two steps, one that failed on
\* the first, and one that succeeded
C5_Witness ==
  /\ phase = "resolved"
  /\ NumSteps = 2
  /\ \E u \in Returned : Failed(u) /\ Len(StepsData(u)) = 2
  /\ \E u \in Returned : Failed(u) /\ Len(StepsData(u)) = 1
  /\ \E u \in Returned : ~Failed(u)

(* ------------------------------- C6 ------------------------------------ *)
\* C6 as stated: no virtual user's promise is ever rejected, and so neither
\* is the wave join, for every step sequence.
C6_Original ==
  /\ \A u \in DOMAIN users : users[u].pc # "rejected"
  /\ phase # "rejected"

\* C6 amended: given at least one step, no virtual user's promise is ever
\* rejected, whatever the transport answers, and neither is the wave join;
\* a rejection happens only for an empty step sequence.
C6_NeverRejects ==
  /\ NumSteps >= 1 => C6_Original
  /\ \A u \in DOMAIN users :
       users[u].pc = "resolved" =>
         Len(StepsData(u)) >= 1 /\ (Failed(u) \/ Len(StepsData(u)) = NumSteps)

\* a wave joined although one of its virtual users failed
C6_Witness ==
  \E u, v \in DOMAIN users :
    /\ SameWave(u, v)
    /\ users[u].pc = "resolved" /\ Failed(u)
    /\ users[v].pc = "resolved" /\ ~Failed(v)
    /\ users[u].testData.repetition = 1

(* ------------------------------- C7 ------------------------------------ *)
\* C7: a failure stays with the virtual user whose step failed. Every
\* TestRun holds exactly the results of its own answered calls; a run is
\* marked failed only by its own failed last result; a chain ends early only
\* by its own failure; a virtual user that has not settled can always take
\* its next step; and once a step has failed runLoadTest is not rejected.
C7_FailureIsLocal ==
  /\ \A u \in DOMAIN users :
       LET user == users[u]
           sd == StepsData(u)
       IN  /\ Len(sd) = Len(user.issued) - (IF user.pc = "request" THEN 1 ELSE 0)
           /\ Failed(u) => Len(sd) >= 1 /\ ~sd[Len(sd)].succeeded
           /\ (user.pc = "resolved" /\ Len(user.issued) < NumSteps) => Failed(u)
           /\ user.pc = "jitter" => ENABLED JitterElapsed(u)
           /\ user.pc = "delay" => ENABLED SleepElapsed(u)
           /\ user.pc = "request" =>
                \A res \in Responses, elapsedTime \in ElapsedTimes :
                  ENABLED TransportResponds(u, res, FALSE, elapsedTime)
  /\ (\E u \in DOMAIN users : Failed(u)) => phase \in { "waiting", "resolved" }

\* after a failure in wave 1, a user of the same wave went through all its
\* steps and a user of wave 2 through all of its own
C7_Witness ==
  \E u, v, w \in DOMAIN users :
    /\ SameWave(u, v) /\ u < v /\ users[w].wave > users[u].wave
    /\ Failed(u) /\ Len(StepsData(u)) = 1
    /\ ~Failed(v) /\ users[v].pc = "resolved" /\ Len(StepsData(v)) = 2
    /\ ~Failed(w) /\ users[w].pc = "resolved" /\ Len(StepsData(w)) = 2
    /\ phase = "resolved"

(* ------------------------------- C8 ------------------------------------ *)
\* a count that is null or below 1; a jitter ceiling that is null or negative
BadCount(v) == v.kind = "null" \/ (v.kind = "number" /\ v.val < 1)
BadCeiling(v) == v.kind = "null" \/ (v.kind = "number" /\ v.val < 0)
Missing(v) == v.kind = "undefined"

\* what a step of a call that failed its validation looks like: an error,
\* nobody spawned, no call issued, steps and accumulator as they were
FailsBeforeAnyWave ==
  /\ phase' = "thrown"
  /\ users' = << >>
  /\ testThreads' = << >>
  /\ testDataAccumulator' = testDataAccumulator
  /\ results' = << >>
  /\ steps' = steps

C9_NoResponseFails ==
  \A u \in DOMAIN users :
    \A j \in 1..Len(StepsData(u)) :
      StepsData(u)[j].responseStatusCode = NullStatus =>
        /\ ~StepsData(u)[j].succeeded
        /\ StepsData(u)[j].error = "status"
        /\ j = Len(StepsData(u))
        /\ users[u].pc = "resolved"
        /\ Failed(u)
        /\ users[u].testData.error = StepsData(u)[j].error
        /\ users[u].issued = UpTo(j)
        /\ users[u].delays = UpTo(j - 1)

\* the transport gave no response to the first of two steps, one with the
\* user's own assertion function
C9_Witness ==
  \E u \in DOMAIN users :
    /\ NumSteps = 2
    /\ steps[1].assertionFunction = "user"
    /\ Len(StepsData(u)) = 1
    /\ StepsData(u)[1].responseStatusCode = NullStatus
    /\ users[u].pc = "resolved"

(* ------------------------------- C10 ----------------------------------- *)
\* C10: a failed step is the last one issued by its virtual user and its
\* delay is never slept; every succeeded step's delay is slept, with the
\* step's configured duration, and has elapsed before the next call.
C10_DelayOnlyAfterSuccess ==
  \A u \in DOMAIN users :
    LET user == users[u]
        sd == StepsData(u)
    IN  /\ user.delays = UpTo(Len(user.delays))
        /\ \A j \in 1..Len(sd) :
             /\ sd[j].succeeded <=> j <= Len(user.delays)
             /\ ~sd[j].succeeded =>
                  user.pc = "resolved" /\ Len(user.issued) = j /\ user.timer = 0
        /\ user.pc = "delay" =>
             user.timer = steps[user.stepIndex].sleepBeforeNextStepInMs
        /\ \A i \in 1..Len(user.issued) - 1 :
             i <= Len(user.elapsed) /\ user.elapsed[i] = i

\* two steps, the second expects 201 and gets 200: two StepResults, the
\* first succeeded, the second failed, and only the first delay was slept
C10_Witness ==
  \E u \in DOMAIN users :
    /\ NumSteps = 2
    /\ users[u].pc = "resolved"
    /\ Len(StepsData(u)) = 2
    /\ StepsData(u)[1].succeeded
    /\ ~StepsData(u)[2].succeeded
    /\ steps[2].expectedResponseCode = 201
    /\ StepsData(u)[2].responseStatusCode = 200
    /\ users[u].delays = << 1 >>
    /\ users[u].elapsed = << 1 >>

(* ------------------------------- C11 ----------------------------------- *)
Repetition(u) == users[u].testData.repetition

\* C11: every returned TestRun carries the index of the wave that spawned
\* it; the indices are 1..numOfRepetitions, each on exactly numOfThreads
\* runs; and the collection is ordered by wave.
C11_StampedAndOrdered ==
  phase = "resolved" =>
    /\ \A p \in 1..Len(results) :
         /\ Repetition(results[p]) = users[results[p]].wave
         /\ Repetition(results[p]) \in 1..NumOfRepetitions.val
    /\ \A k \in 1..NumOfRepetitions.val :
         Cardinality({ p \in 1..Len(results) : Repetition(results[p]) = k })
           = NumOfThreads.val
    /\ \A p, q \in 1..Len(results) :
         p < q => Repetition(results[p]) <= Repetition(results[q])

\* two waves of two virtual users returned, the first wave's runs first
C11_Witness ==
  /\ phase = "resolved"
  /\ Len(results) = 4
  /\ Repetition(results[2]) = 1
  /\ Repetition(results[3]) = 2
  /\ Failed(results[1]) /\ ~Failed(results[4])
(* ------------------------------- C12 ----------------------------------- *)
\* the failed runs of the collection, by position
FailedRuns == { p \in 1..Len(results) : Failed(results[p]) }
\* the stepData a failed run ended on
LastStepData(p) == StepsData(results[p])[Len(StepsData(results[p]))]
\* the count a rendered distribution shows for key (0 when it has no line)
CountOf(message, key) ==
  IF \E i \in 1..Len(message.lines) : message.lines[i].key = key
  THEN message.lines[CHOOSE i \in 1..Len(message.lines) : message.lines[i].key = key].count
  ELSE 0
RECURSIVE SumOfCounts(_, _)
SumOfCounts(message, i) ==
  IF i > Len(message.lines) THEN 0
  ELSE message.lines[i].count + SumOfCounts(message, i + 1)
\* one line per key, none of them for a count of 0
WellFormed(message) ==
  \A i, j \in 1..Len(message.lines) :
    /\ message.lines[i].count >= 1
    /\ message.lines[i].key = message.lines[j].key => i = j

SucceededRuns == { p \in 1..Len(results) : ~Failed(results[p]) }

\* C13: in the report of a non-empty collection the average of successes is
\* 'N/A' when no run succeeded, the average of failures is 'N/A' when no run
\* failed, and neither is ever NaN.
C13_EmptySetIsNA ==
  (report.state = "printed" /\ Len(results) >= 1) =>
    /\ SucceededRuns = {} => report.successes = NA
    /\ FailedRuns = {} => report.failures = NA
    /\ report.successes.kind \notin { "NaN", "Infinity" }
    /\ report.failures.kind \notin { "NaN", "Infinity" }

\* the report of three failed runs: no success to average, and an average
\* of failures that is a number
C13_Witness ==
  /\ report.state = "printed"
  /\ Len(results) = 3 /\ SucceededRuns = {}
  /\ report.successes = NA
  /\ report.failures.kind = "number"
(* ------------------------------- C14 ----------------------------------- *)
\* the stepData objects named name in stepsData[j..]: how many, and their
\* elapsed time in total
RECURSIVE NamedInRunFrom(_, _, _)
NamedInRunFrom(stepsData, name, j) ==
  IF j > Len(stepsData) THEN [executions |-> 0, total |-> 0]
  ELSE LET rest == NamedInRunFrom(stepsData, name, j + 1)
       IN  IF stepsData[j].step.name = name
           THEN [ executions |-> rest.executions + 1,
                  total |-> rest.total + stepsData[j].responseTime ]
           ELSE rest
\* the same over the runs at the positions p.. of the collection
RECURSIVE NamedInRunsFrom(_, _)
NamedInRunsFrom(name, p) ==
  IF p > Len(results) THEN [executions |-> 0, total |-> 0]
  ELSE LET here == NamedInRunFrom(StepsData(results[p]), name, 1)
           rest == NamedInRunsFrom(name, p + 1)
       IN  [ executions |-> here.executions + rest.executions,
             total |-> here.total + rest.total ]
\* the step names of the first run's stepData
FirstRunStepNames ==
  { StepsData(results[1])[j].step.name : j \in 1..Len(StepsData(results[1])) }

\* C14: the per-step section of a printed report has one entry for exactly
\* each step name of the first run's stepData, and the entry of S is the
\* mean elapsed time of the stepData of S over the runs that hold one.
C14_Original ==
  report.state = "printed" =>
    /\ DOMAIN report.steps = FirstRunStepNames
    /\ \A name \in FirstRunStepNames :
         LET named == NamedInRunsFrom(name, 1)
         IN  report.steps[name] = DividedBy(Number(named.total), named.executions)
(* ------------------------------- C15 ----------------------------------- *)
\* the elapsed time of run p in total
RECURSIVE RunTotalFrom(_, _)
RunTotalFrom(p, j) ==
  IF j > Len(StepsData(results[p])) THEN 0
  ELSE StepsData(results[p])[j].responseTime + RunTotalFrom(p, j + 1)
\* the product of the stepData counts of the runs of P at positions p..
RECURSIVE LengthProductFrom(_, _)
LengthProductFrom(P, p) ==
  IF p > Len(results) THEN 1
  ELSE (IF p \in P THEN Len(StepsData(results[p])) ELSE 1) * LengthProductFrom(P, p + 1)
\* the sum over the runs of P of (mean of the run) x (product of the counts)
RECURSIVE ScaledMeansFrom(_, _)
ScaledMeansFrom(P, p) ==
  IF p > Len(results) THEN 0
  ELSE (IF p \in P
        THEN RunTotalFrom(p, 1) * (LengthProductFrom(P, 1) \div Len(StepsData(results[p])))
        ELSE 0) + ScaledMeansFrom(P, p + 1)
\* shown is the number (1/|P|) x sum over P of the run's own mean
IsMeanOfMeans(shown, P) ==
  /\ shown.kind = "number"
  /\ shown.n * Cardinality(P) * LengthProductFrom(P, 1) = shown.d * ScaledMeansFrom(P, 1)
\* three succeeded one-step runs of 50, 60 and 70 ms
FiftySixtySeventy ==
  /\ Len(results) = 3
  /\ \A p \in 1..3 : ~Failed(results[p]) /\ Len(StepsData(results[p])) = 1
  /\ StepsData(results[1])[1].responseTime = 50
  /\ StepsData(results[2])[1].responseTime = 60
  /\ StepsData(results[3])[1].responseTime = 70

Settled(u) == users[u].pc = "resolved" /\ InFlight(u) = 0
\* the same of u after the step
SettledNext(u) ==
  /\ users'[u].pc = "resolved"
  /\ Len(users'[u].issued) = Len(users'[u].testData.stepsData)

\* C16: the accumulator changes only by appending the wave that just ended,
\* in a step taken when every virtual user has settled; no result is exposed
\* and no report printed before runLoadTest resolves; when it resolves every
\* TestRun of the result has settled, and from then on neither the result
\* nor any TestRun changes.
C16_SettledOnly ==
  [][ /\ testDataAccumulator' # testDataAccumulator =>
           /\ \A u \in DOMAIN users : Settled(u)
           /\ testDataAccumulator' = testDataAccumulator \o testThreads
      /\ (phase' # "resolved") => (results' = << >> /\ report'.state = "none")
      /\ (phase' = "resolved") =>
           /\ results' = testDataAccumulator'
           /\ \A p \in 1..Len(results') : SettledNext(results'[p])
      /\ (phase = "resolved") =>
           /\ phase' = "resolved"
           /\ results' = results
           /\ users' = users ]_vars

\* two waves of two were appended at their boundaries and the report was
\* printed from the four settled runs
C16_Witness ==
  /\ phase = "resolved" /\ report.state = "printed"
  /\ Len(results) = 4 /\ testDataAccumulator = results
  /\ \A p \in 1..4 : Settled(results[p])
  /\ users[results[1]].wave = 1 /\ users[results[4]].wave = 2
Pending(u) == users[u].pc = "request"

\* C18: with a fair event loop and a transport that answers every request,
\* a valid call with at least one step leads to runLoadTest resolving with
\* all numOfThreads x numOfRepetitions runs; and nothing but the answer ends
\* a pending request: while u waits, runLoadTest has not resolved, u's wave
\* is the current one and has not completed, and no later wave exists; u
\* leaves the wait only with the stepData of the answer recorded.
C18_NoTimeout ==
  /\ (phase = "idle" /\ ValidParams /\ NumSteps >= 1)
       ~> (phase = "resolved"
           /\ Len(results) = NumOfThreads.val * NumOfRepetitions.val)
  /\ [](\A u \in DOMAIN users : Pending(u) =>
          /\ phase = "waiting" /\ results = << >>
          /\ users[u].wave = currentRepetition
          /\ ~AllResolved
          /\ \A v \in DOMAIN users : users[v].wave <= users[u].wave)
  /\ [][ \A u \in DOMAIN users :
           (Pending(u) /\ users'[u] # users[u]) =>
             Len(users'[u].testData.stepsData) = Len(StepsData(u)) + 1 ]_vars

\* the first wave of two is stalled by one unanswered request: the other
\* virtual user has resolved and a second wave was asked for
C18_Witness ==
  /\ phase = "waiting" /\ currentRepetition = 1 /\ NumOfRepetitions.val = 2
  /\ Len(users) = 2
  /\ users[1].pc = "resolved" /\ Pending(2)
(* ------------------------------- C19 ----------------------------------- *)
\* C19: at every moment the stepData of every TestRun are copies of the
\* first registered steps, in registration order; a step of the program
\* appends at most one stepData, to the TestRun of the virtual user whose
\* request was pending, for the step that user was executing, and leaves
\* the stepData of every other TestRun as they were; the registered
\* sequence never changes.
C19_StepsVerbatim ==
  /\ [](\A u \in DOMAIN users :
          /\ Len(StepsData(u)) <= NumSteps
          /\ \A i \in 1..Len(StepsData(u)) : StepsData(u)[i].step = steps[i])
  /\ [][ /\ steps' = steps
         /\ \A u \in DOMAIN users :
              \/ users'[u].testData.stepsData = StepsData(u)
              \/ /\ Pending(u)
                 /\ Len(users'[u].testData.stepsData) = Len(StepsData(u)) + 1
                 /\ SubSeq(users'[u].testData.stepsData, 1, Len(StepsData(u))) = StepsData(u)
                 /\ users'[u].testData.stepsData[Len(StepsData(u)) + 1].step
                      = steps[users[u].stepIndex]
                 /\ \A v \in DOMAIN users \ { u } :
                      users'[v].testData.stepsData = StepsData(v) ]_vars

\* two virtual users of one wave over two different steps: one recorded
\* both steps, the other failed at the first
C19_Witness ==
  /\ NumSteps = 2 /\ steps[1] # steps[2]
  /\ \E u, v \in DOMAIN users :
       /\ u # v /\ SameWave(u, v)
       /\ Len(StepsData(u)) = 2 /\ StepsData(u)[2].step = steps[2]
       /\ Len(StepsData(v)) = 1 /\ Failed(v)
(* ------------------------------- C20 ----------------------------------- *)
\* what the transport and the assertion function answered to the i-th
\* request of u, as recorded in u's stepData (no answer when none was)
AnswerTo(u, i) ==
  IF i <= Len(StepsData(u))
  THEN [ res |-> IF StepsData(u)[i].responseStatusCode = NullStatus THEN NoResponse
                 ELSE Response(StepsData(u)[i].responseStatusCode),
         userThrows |-> StepsData(u)[i].error = "assertion",
         elapsedTime |-> StepsData(u)[i].responseTime ]
  ELSE [ res |-> NoResponse, userThrows |-> FALSE, elapsedTime |-> 0 ]
\* the slot of position p: its wave and its spawn index within the wave
WaveOf(p) == ((p - 1) \div NumOfThreads.val) + 1
SpawnIndexOf(p) == ((p - 1) % NumOfThreads.val) + 1

\* C20: the collection runLoadTest resolves to is a function of the answers
\* alone: position p holds the run spawned at index SpawnIndexOf(p) of wave
\* WaveOf(p), whatever the jitter draws and the order of completion were,
\* and that run's testData is what the sequential runTest computes from
\* the answers given to that virtual user, stamped with its wave.
C20_OrderIndependent ==
  phase = "resolved" =>
    \A p \in 1..Len(results) :
      /\ results[p] = p
      /\ users[p].wave = WaveOf(p)
      /\ testThreads[SpawnIndexOf(p)] = Len(results) - NumOfThreads.val + SpawnIndexOf(p)
      /\ users[p].testData =
           [ RunTestFrom(steps, [ i \in 1..NumSteps |-> AnswerTo(p, i) ], 1, NoTestData)
               EXCEPT !.repetition = WaveOf(p) ]

\* a returned wave of two with a jitter to draw, whose positions differ: the
\* first spawned recorded both steps, the second failed at its first step
\* (and so may have completed first)
C20_Witness ==
  /\ phase = "resolved" /\ Len(results) = 2 /\ NumSteps = 2
  /\ NumOfThreads.val = 2 /\ MaxTimeBeforeStartingInMs.val >= 1
  /\ Len(StepsData(results[1])) = 2 /\ ~Failed(results[1])
  /\ Len(StepsData(results[2])) = 1 /\ Failed(results[2])
(* ------------------------------- C21 ----------------------------------- *)
\* C21: in a printed report the average of successes (of failures) is
\* 'N/A' only when no run succeeded (failed); for a set of runs that is not
\* empty, one whose stepData all took 0 ms included, it is the numeric mean
\* of the runs' means.
C21_Original ==
  report.state = "printed" =>
    /\ report.successes = NA => SucceededRuns = {}
    /\ report.failures = NA => FailedRuns = {}
    /\ SucceededRuns # {} => IsMeanOfMeans(report.successes, SucceededRuns)
    /\ FailedRuns # {} => IsMeanOfMeans(report.failures, FailedRuns)

====
